---- MODULE Spec2Model ----
(***************************************************************************)
(* Expense Tracker of main_v2.py: the balance aggregation over the rows of *)
(* the Expenses sheet (lines 271-279) and the greedy "How to Settle Up"    *)
(* loop (lines 286-296).                                                   *)
(*                                                                         *)
(* Money is a Python float in the source.  Here it is an exact rational    *)
(* with the fixed denominator Denom: the integer b stands for b / Denom    *)
(* hundredths of a rupee, so 0.01 is Denom units and every share           *)
(* amount / len(split_list) with len(split_list) <= MaxSplit is an exact   *)
(* integer number of units.  IEEE rounding of the division is not          *)
(* modelled; comparisons, subtraction to zero and min/max are exact in     *)
(* both.  A dict is a function whose domain is its key set; its iteration  *)
(* order is the order of Travelers, which is the insertion order of        *)
(* balances and is kept by the comprehensions and by del.                  *)
(***************************************************************************)
EXTENDS Integers, Sequences, FiniteSets, TLC

\* exp is the loop variable of the row loop; it is read only inside the loop
\* body and holds NoRow outside of it
VARIABLES balances, exp, nExp, creditors, debtors, settlements,
          prevSettlements, run, pc

vars == <<balances, exp, nExp, creditors, debtors, settlements,
          prevSettlements, run, pc>>

(* ------------------------------ bounds -------------------------------- *)
MaxExpenses == 2
MaxAmount == 3
MaxBal == 6
MaxRuns == 2

(* ------------------------------ helpers ------------------------------- *)
RECURSIVE Factorial(_)
Factorial(n) == IF n <= 1 THEN 1 ELSE n * Factorial(n - 1)


Abs(x) == IF x < 0 THEN -x ELSE x

Min2(a, b) == IF a <= b THEN a ELSE b

RECURSIVE SumOver(_, _)
SumOver(f, S) ==
    IF S = {} THEN 0
    ELSE LET x == CHOOSE y \in S : TRUE IN f[x] + SumOver(f, S \ {x})

SumAll(f) == SumOver(f, DOMAIN f)

RECURSIVE SumAbsOver(_, _)
SumAbsOver(f, S) ==
    IF S = {} THEN 0
    ELSE LET x == CHOOSE y \in S : TRUE IN Abs(f[x]) + SumAbsOver(f, S \ {x})

RECURSIVE Count(_, _)
Count(x, s) ==
    IF s = <<>> THEN 0
    ELSE (IF Head(s) = x THEN 1 ELSE 0) + Count(x, Tail(s))

Range(s) == {s[i] : i \in 1..Len(s)}

(* ------------------------- participants, rows ------------------------- *)
\* travelers = users_df['Name'].tolist(): the names of the Users sheet, in order
Travelers == <<"A", "B", "C">>

Known == Range(Travelers)

\* a name of the Expenses sheet that is no traveler
Stranger == "Z"

Names == Known \cup {Stranger}

Index(t) == CHOOSE i \in 1..Len(Travelers) : Travelers[i] = t

\* the longest Split_Between cell drawn: as many names as there are travelers
MaxSplit == Len(Travelers)

\* units per hundredth: every share of a whole number of hundredths is whole
Denom == Factorial(MaxSplit)

\* 0.01, the threshold of the settlement code
Eps == Denom

Rank(n) == IF n \in Known THEN Index(n) ELSE Len(Travelers) + 1

\* the names of a Split_Between cell, left to right; a name may repeat, and a
\* cell stands for all of its reorderings (the loop body does not depend on order)
SplitCells ==
    {s \in UNION {[1..n -> Names] : n \in 0..MaxSplit} :
        \A i \in 1..Len(s) : \A j \in i..Len(s) : Rank(s[i]) <= Rank(s[j])}

\* a row of expenses_df: Paid_By, Amount_LKR (hundredths, after fillna(0)), Split_Between
Rows == [Paid_By : Names, Amount_LKR : 0..MaxAmount, Split_Between : SplitCells]

NoRow == [Paid_By |-> "", Amount_LKR |-> 0, Split_Between |-> <<>>]

EmptyDict == [t \in {} |-> 0]

(* ------------------------ balance aggregation ------------------------- *)
\* split_list = [s.strip() for s in ... if s.strip() in travelers]
SplitList(row) == SelectSeq(row.Split_Between, LAMBDA s : s \in Known)

\* mutant of Share: divides by the length of the unfiltered cell
ShareUnfiltered(row) == (row.Amount_LKR * Denom) \div Len(row.Split_Between)

\* share = exp['Amount_LKR'] / len(split_list)
Share(row) == (row.Amount_LKR * Denom) \div Len(SplitList(row))

\* if exp['Paid_By'] in balances: balances[exp['Paid_By']] += exp['Amount_LKR']
Credit(bal, row) ==
    IF row.Paid_By \in DOMAIN bal
    THEN [bal EXCEPT ![row.Paid_By] = @ + row.Amount_LKR * Denom]
    ELSE bal

\* mutant of Debit: debits every name of split_list once, however often it occurs
DebitOnce(bal, split_list, share) ==
    [p \in DOMAIN bal |-> IF p \in Range(split_list) THEN bal[p] - share ELSE bal[p]]

\* for p in split_list: if p in balances: balances[p] -= share
RECURSIVE Debit(_, _, _)
Debit(bal, split_list, share) ==
    IF split_list = <<>> THEN bal
    ELSE LET p == Head(split_list)
             b == IF p \in DOMAIN bal THEN [bal EXCEPT ![p] = @ - share] ELSE bal
         IN Debit(b, Tail(split_list), share)

ApplyExpense(bal, row) == Debit(Credit(bal, row), SplitList(row), Share(row))

\* for _, exp in expenses_df.iterrows(): the next row of the sheet
FetchRow ==
    /\ pc = "rows"
    /\ nExp < MaxExpenses
    /\ exp' \in Rows
    /\ pc' = "body"
    /\ UNCHANGED <<balances, nExp, creditors, debtors, settlements,
                   prevSettlements, run>>

\* mutant of SkipRow: the payer is credited before the empty split_list is noticed
SkipRowCredits ==
    /\ pc = "body"
    /\ SplitList(exp) = <<>>
    /\ balances' = Credit(balances, exp)
    /\ exp' = NoRow
    /\ nExp' = nExp + 1
    /\ pc' = "rows"
    /\ UNCHANGED <<creditors, debtors, settlements, prevSettlements, run>>

\* the loop body that ends at "if not split_list: continue"
SkipRow ==
    /\ pc = "body"
    /\ SplitList(exp) = <<>>
    /\ balances' = balances
    /\ exp' = NoRow
    /\ nExp' = nExp + 1
    /\ pc' = "rows"
    /\ UNCHANGED <<creditors, debtors, settlements, prevSettlements, run>>

\* mutant of SplitRow: a row whose payer is no traveler is skipped as a whole
SplitRowKnownPayerOnly ==
    /\ pc = "body"
    /\ SplitList(exp) # <<>>
    /\ balances' = IF exp.Paid_By \in DOMAIN balances
                    THEN ApplyExpense(balances, exp)
                    ELSE balances
    /\ exp' = NoRow
    /\ nExp' = nExp + 1
    /\ pc' = "rows"
    /\ UNCHANGED <<creditors, debtors, settlements, prevSettlements, run>>

\* the loop body for a row with a non-empty split_list
SplitRow ==
    /\ pc = "body"
    /\ SplitList(exp) # <<>>
    /\ balances' = ApplyExpense(balances, exp)
    /\ exp' = NoRow
    /\ nExp' = nExp + 1
    /\ pc' = "rows"
    /\ UNCHANGED <<creditors, debtors, settlements, prevSettlements, run>>

\* the rows of expenses_df are exhausted ("not expenses_df.empty": at least one)
EndRows ==
    /\ pc = "rows"
    /\ nExp >= 1
    /\ pc' = "partition"
    /\ UNCHANGED <<balances, exp, nExp, creditors, debtors, settlements,
                   prevSettlements, run>>

(* --------------------------- settlement loop -------------------------- *)
\* {p: b for p, b in balances.items() if b > 0.01}
Creditors(bal) ==
    [p \in {q \in DOMAIN bal : bal[q] > Eps} |-> bal[p]]

\* mutant of Debtors: the sign of the threshold is lost
DebtorsSignSlip(bal) ==
    [p \in {q \in DOMAIN bal : bal[q] < Eps} |-> bal[p]]

\* {p: b for p, b in balances.items() if b < -0.01}
Debtors(bal) ==
    [p \in {q \in DOMAIN bal : bal[q] < -Eps} |-> bal[p]]

\* max(creditors.items(), key=lambda x: x[1]): the first largest, in dict order
MaxCreditor(c) ==
    CHOOSE p \in DOMAIN c :
        \A q \in DOMAIN c : c[q] < c[p] \/ (c[q] = c[p] /\ Index(p) <= Index(q))

\* min(debtors.items(), key=lambda x: x[1]): the first smallest, in dict order
MinDebtor(d) ==
    CHOOSE p \in DOMAIN d :
        \A q \in DOMAIN d : d[q] > d[p] \/ (d[q] = d[p] /\ Index(p) <= Index(q))

\* amount = min(c_val, -d_val)
Amount(c, d) == Min2(c[MaxCreditor(c)], -d[MinDebtor(d)])

\* f"{amount:,.2f}": the amount in whole hundredths, to nearest, exact ties to even
Shown(amount) ==
    LET q == amount \div Denom
        r == amount % Denom
    IN IF 2 * r < Denom THEN q
       ELSE IF 2 * r > Denom THEN q + 1
       ELSE IF q % 2 = 0 THEN q ELSE q + 1

\* mutant of Entry: payer and receiver are exchanged
EntrySwapped(d_name, c_name, amount) ==
    [from |-> c_name, to |-> d_name, amount |-> amount, shown |-> Shown(amount)]

\* f"**{d_name}** pays **{c_name}** -> **Rs {amount:,.2f}**"
Entry(d_name, c_name, amount) ==
    [from |-> d_name, to |-> c_name, amount |-> amount, shown |-> Shown(amount)]

\* mutant of Settle: the entry is never deleted
SettleKeep(dict, name, val) == [dict EXCEPT ![name] = val]

\* mutant of Settle: an entry of exactly 0.01 is deleted too
SettleLoose(dict, name, val) ==
    IF Abs(val) <= Eps
    THEN [p \in DOMAIN dict \ {name} |-> dict[p]]
    ELSE [dict EXCEPT ![name] = val]

\* mutant of Settle: the deletion test lacks abs()
SettleNoAbs(dict, name, val) ==
    IF val < Eps
    THEN [p \in DOMAIN dict \ {name} |-> dict[p]]
    ELSE [dict EXCEPT ![name] = val]

\* dict[name] = val; if abs(dict[name]) < 0.01: del dict[name]
Settle(dict, name, val) ==
    IF Abs(val) < Eps
    THEN [p \in DOMAIN dict \ {name} |-> dict[p]]
    ELSE [dict EXCEPT ![name] = val]

\* creditors = ...; debtors = ...; settlements = []
Partition ==
    /\ pc = "partition"
    /\ creditors' = Creditors(balances)
    /\ debtors' = Debtors(balances)
    /\ settlements' = <<>>
    /\ pc' = "loop"
    /\ UNCHANGED <<balances, exp, nExp, prevSettlements, run>>

\* mutant of SettleStep: the loop works on balances itself, not on copies
SettleStepInPlace ==
    /\ pc = "loop"
    /\ DOMAIN creditors # {}
    /\ DOMAIN debtors # {}
    /\ LET c_name == MaxCreditor(creditors)
           d_name == MinDebtor(debtors)
           amount == Amount(creditors, debtors)
       IN /\ settlements' = Append(settlements, Entry(d_name, c_name, amount))
          /\ creditors' = Settle(creditors, c_name, creditors[c_name] - amount)
          /\ debtors' = Settle(debtors, d_name, debtors[d_name] + amount)
          /\ balances' = [balances EXCEPT ![c_name] = @ - amount,
                                          ![d_name] = @ + amount]
    /\ UNCHANGED <<exp, nExp, prevSettlements, run, pc>>

\* one iteration of "while creditors and debtors"
SettleStep ==
    /\ pc = "loop"
    /\ DOMAIN creditors # {}
    /\ DOMAIN debtors # {}
    /\ LET c_name == MaxCreditor(creditors)
           d_name == MinDebtor(debtors)
           amount == Amount(creditors, debtors)
       IN /\ settlements' = Append(settlements, Entry(d_name, c_name, amount))
          /\ creditors' = Settle(creditors, c_name, creditors[c_name] - amount)
          /\ debtors' = Settle(debtors, d_name, debtors[d_name] + amount)
    /\ UNCHANGED <<balances, exp, nExp, prevSettlements, run, pc>>

\* the while condition fails: the settlements are shown
EndLoop ==
    /\ pc = "loop"
    /\ (DOMAIN creditors = {} \/ DOMAIN debtors = {})
    /\ pc' = "done"
    /\ UNCHANGED <<balances, exp, nExp, creditors, debtors, settlements,
                   prevSettlements, run>>

\* st.rerun() / any widget event: the page is computed again from the same sheet
Rerun ==
    /\ pc = "done"
    /\ run < MaxRuns
    /\ prevSettlements' = settlements
    /\ run' = run + 1
    /\ pc' = "partition"
    /\ UNCHANGED <<balances, exp, nExp, creditors, debtors, settlements>>

(* --------------------------- specifications --------------------------- *)
\* the Balances tab, from "balances = {t: 0 for t in travelers}"
Init ==
    /\ balances = [t \in Known |-> 0]
    /\ exp = NoRow
    /\ nExp = 0
    /\ creditors = EmptyDict
    /\ debtors = EmptyDict
    /\ settlements = <<>>
    /\ prevSettlements = <<>>
    /\ run = 1
    /\ pc = "rows"

Next == FetchRow \/ SkipRow \/ SplitRow \/ EndRows \/ Partition \/ SettleStep \/ EndLoop

Spec == Init /\ [][Next]_vars

\* the balances the settlement code may be handed: steps of half of 0.01
BalanceGrid == {k * (Eps \div 2) : k \in -MaxBal..MaxBal}

\* the settlement code alone, on any Balance mapping
InitSettle ==
    /\ balances \in [Known -> BalanceGrid]
    /\ exp = NoRow
    /\ nExp = 0
    /\ creditors = EmptyDict
    /\ debtors = EmptyDict
    /\ settlements = <<>>
    /\ prevSettlements = <<>>
    /\ run = 1
    /\ pc = "partition"

NextSettle == Partition \/ SettleStep \/ EndLoop \/ Rerun

SpecSettle == InitSettle /\ [][NextSettle]_vars

\* the loop is straight-line synchronous code: an enabled step is taken
FairSpecSettle == SpecSettle /\ WF_vars(NextSettle)

(* ------------------------- derived quantities ------------------------- *)
RECURSIVE PaidBy(_, _)
PaidBy(t, list) ==
    IF list = <<>> THEN 0
    ELSE (IF Head(list).from = t THEN Head(list).amount ELSE 0) + PaidBy(t, Tail(list))

RECURSIVE ReceivedBy(_, _)
ReceivedBy(t, list) ==
    IF list = <<>> THEN 0
    ELSE (IF Head(list).to = t THEN Head(list).amount ELSE 0) + ReceivedBy(t, Tail(list))

\* the balance of t once every emitted transfer has been made
Adjusted(t) == balances[t] + PaidBy(t, settlements) - ReceivedBy(t, settlements)

\* the number of known names in a Split_Between cell, counted with repetition
KnownInCell(cell) == Len(cell) - Count(Stranger, cell)

AllZero == \A t \in Known : balances[t] = 0

NonZero == Cardinality({t \in Known : balances[t] # 0})

InitialCreditors == {t \in Known : balances[t] > Eps}

InitialDebtors == {t \in Known : balances[t] < -Eps}

AbsSum ==
    SumAbsOver(creditors, DOMAIN creditors) + SumAbsOver(debtors, DOMAIN debtors)

InSets == Cardinality(DOMAIN creditors) + Cardinality(DOMAIN debtors)

\* a step of the settlement loop that emits a transfer
Emits == pc = "loop" /\ Len(settlements') = Len(settlements) + 1

LastAmount == settlements'[Len(settlements')].amount

(* ------------------------------- claims ------------------------------- *)

\* C1: for a Balance that sums to zero, once the settlement loop has finished,
\* every participant's balance adjusted by all emitted transfers is within
\* epsilon of zero.  Stated here with "within" read as "at most epsilon", which
\* the claim's "strictly within" implies.
C1_SettlementCorrect ==
    (pc = "done" /\ SumAll(balances) = 0)
        => \A t \in Known : Abs(Adjusted(t)) <= Eps

\* C3: the number of emitted transfers is at most max(0, n - 1), n the number
\* of participants whose balance is not zero, for zero-sum and other balances.
C3_MinimalityBound ==
    pc \in {"loop", "done"}
        => Len(settlements) <= (IF NonZero >= 1 THEN NonZero - 1 ELSE 0)

\* C3 witness: three non-zero balances, not summing to zero, settled by
\* exactly two transfers.
C3_Witness ==
    /\ pc = "done"
    /\ NonZero = 3
    /\ SumAll(balances) # 0
    /\ Len(settlements) = 2

\* C5: every transfer appended to the settlement list has an amount strictly
\* greater than zero, and the amount it shows is greater than zero too.
C5_NoSpuriousTransfer ==
    \A i \in 1..Len(settlements) :
        settlements[i].amount > 0 /\ settlements[i].shown > 0

\* C5 witness: a finished run that emitted a transfer of exactly epsilon, the
\* smallest amount the loop can emit.
C5_Witness ==
    /\ pc = "done"
    /\ \E i \in 1..Len(settlements) : settlements[i].amount = Eps

\* C8: every transfer is paid by a participant whose initial balance is below
\* -epsilon and received by one whose initial balance is above +epsilon; so
\* nobody within epsilon of zero appears in a transfer, nobody both pays and
\* receives, and balances all within epsilon of zero give no transfer.
C8_Roles ==
    /\ \A i \in 1..Len(settlements) :
          /\ balances[settlements[i].from] < -Eps
          /\ balances[settlements[i].to] > Eps
    /\ \A i, j \in 1..Len(settlements) : settlements[i].from # settlements[j].to
    /\ (pc = "done" /\ \A t \in Known : Abs(balances[t]) <= Eps)
          => settlements = <<>>

\* C8 witness: a finished run with two transfers in which one participant sat
\* exactly at epsilon and so took no part.
C8_Witness ==
    /\ pc = "done"
    /\ Len(settlements) >= 1
    /\ \E t \in Known :
          /\ Abs(balances[t]) = Eps
          /\ \A i \in 1..Len(settlements) :
                settlements[i].from # t /\ settlements[i].to # t

\* a row in which the payer and every name of the split cell are travelers
AllKnown(row) ==
    /\ row.Paid_By \in Known
    /\ \A i \in 1..Len(row.Split_Between) : row.Split_Between[i] \in Known

\* what a row takes from traveler t: one share for each time the cell names t
Owes(t, row) ==
    Count(t, row.Split_Between)
        * ((row.Amount_LKR * Denom) \div KnownInCell(row.Split_Between))

\* C2: when the payer and every split name of each row are travelers (and the
\* amounts are not negative), the balances sum to zero, at the start and
\* after each processed row.
C2_Conservation ==
    /\ SumAll(balances) = 0
    /\ [][(pc = "body" /\ AllKnown(exp) /\ exp.Amount_LKR >= 0
              /\ SumAll(balances) = 0)
            => SumAll(balances') = 0]_vars

\* C2 witness: the second row, with known names only and naming one traveler
\* twice, is about to be processed on non-zero balances that sum to zero.
C2_Witness ==
    /\ pc = "body"
    /\ nExp = 1
    /\ ~AllZero
    /\ SumAll(balances) = 0
    /\ AllKnown(exp)
    /\ exp.Amount_LKR > 0
    /\ \E t \in Known : Count(t, exp.Split_Between) = 2

\* C6: a row with a known payer and at least one known split name adds the
\* full amount to the payer and takes amount / (number of known split names)
\* from each known split name; from zero balances, 3 paid by A and split over
\* A, B, C gives A = +2, B = -1, C = -1.
C6_LedgerResult ==
    [][(pc = "body" /\ exp.Paid_By \in Known
            /\ KnownInCell(exp.Split_Between) > 0)
          => /\ \A t \in Known :
                   balances'[t] =
                       balances[t]
                       + (IF t = exp.Paid_By THEN exp.Amount_LKR * Denom ELSE 0)
                       - Owes(t, exp)
             /\ (AllZero /\ exp = [Paid_By |-> "A", Amount_LKR |-> 3,
                                   Split_Between |-> <<"A", "B", "C">>])
                   => balances' = [A |-> 2 * Denom, B |-> -Denom, C |-> -Denom]]_vars

\* C6 witness: one processed row has left A = +2, B = -1, C = -1.
C6_Witness ==
    /\ pc = "rows"
    /\ nExp = 1
    /\ balances = [A |-> 2 * Denom, B |-> -Denom, C |-> -Denom]

\* C7: a row whose split cell names no traveler changes no balance, the
\* payer's included; all-zero balances give an empty settlement list.
C7_IgnoredRow ==
    /\ [][(pc = "body" /\ KnownInCell(exp.Split_Between) = 0)
            => balances' = balances]_vars
    /\ []((pc \in {"loop", "done"} /\ AllZero) => settlements = <<>>)

\* C7 witness: a row paid by a traveler, of a positive amount, split over a
\* stranger only, is about to be processed.
C7_Witness ==
    /\ pc = "body"
    /\ exp.Paid_By \in Known
    /\ exp.Amount_LKR > 0
    /\ exp.Split_Between = <<Stranger>>

\* C10: a row whose payer is no traveler but whose split cell names a traveler
\* credits nobody and still debits each known split name its share, so the sum
\* of the balances falls by exactly the amount.
C10_UnknownPayer ==
    [][(pc = "body" /\ exp.Paid_By \notin Known
            /\ KnownInCell(exp.Split_Between) > 0)
          => /\ \A t \in Known : balances'[t] = balances[t] - Owes(t, exp)
             /\ SumAll(balances') = SumAll(balances) - exp.Amount_LKR * Denom]_vars

\* C10 witness: one processed row has left balances that sum to minus its
\* amount, which only a row with an unknown payer does.
C10_Witness ==
    /\ pc = "rows"
    /\ nExp = 1
    /\ SumAll(balances) = -(MaxAmount * Denom)

C4_AsClaimed ==
    /\ [][Emits => /\ InSets' < InSets
                   /\ AbsSum' = AbsSum - 2 * LastAmount]_vars
    /\ []((pc \in {"loop", "done"} /\ InitialCreditors # {} /\ InitialDebtors # {})
            => Len(settlements)
                 <= Cardinality(InitialCreditors) + Cardinality(InitialDebtors) - 1)
    /\ [](pc = "done" \/ ENABLED NextSettle)

\* C4, amended: the loop terminates; every iteration removes a participant from
\* the creditor or the debtor set; the sum of the absolute values of the
\* balances left in the two sets falls by at least 2 * amount and by less than
\* 2 * amount + epsilon in each iteration (a remainder below epsilon leaves
\* with the participant it belongs to); with both sets non-empty at the start
\* there are at most |creditors| + |debtors| - 1 iterations.
C4_Termination ==
    /\ [][Emits => /\ InSets' < InSets
                   /\ AbsSum' <= AbsSum - 2 * LastAmount
                   /\ AbsSum' > AbsSum - 2 * LastAmount - Eps]_vars
    /\ []((pc \in {"loop", "done"} /\ InitialCreditors # {} /\ InitialDebtors # {})
            => Len(settlements)
                 <= Cardinality(InitialCreditors) + Cardinality(InitialDebtors) - 1)
    /\ ((pc = "loop") ~> (pc = "done"))

\* C4 witness: a finished run of two iterations in which a remainder below
\* epsilon was dropped: the transfers do not add up to the creditors' balances.
C4_Witness ==
    /\ pc = "done"
    /\ Len(settlements) = 2
    /\ \E t \in InitialCreditors :
          /\ ReceivedBy(t, settlements) > 0
          /\ ReceivedBy(t, settlements) < balances[t]

\* the adjusted balances as a mapping
AdjustedAll == [t \in Known |-> Adjusted(t)]

\* the participants whose adjusted balance is beyond epsilon
Beyond == {t \in Known : Abs(Adjusted(t)) > Eps}

\* what is left in the two dicts
Remaining == DOMAIN creditors \cup DOMAIN debtors

RemainingValue(t) == IF t \in DOMAIN creditors THEN creditors[t] ELSE debtors[t]

\* C11, as claimed: for a Balance that does not sum to zero the loop
\* terminates, and after all emitted transfers at most one participant has an
\* adjusted balance beyond epsilon; that balance is the sum of the initial
\* balances up to a remainder below epsilon for each other participant.
C11_AsClaimed ==
    /\ [](pc = "done" \/ ENABLED NextSettle)
    /\ []((pc = "done" /\ SumAll(balances) # 0)
            => /\ Cardinality(Beyond) <= 1
               /\ \A t \in Beyond :
                     Abs(Adjusted(t) - SumAll(balances))
                         < (Cardinality(Known) - 1) * Eps)

\* C11, amended: for a Balance that does not sum to zero the loop terminates,
\* and after all emitted transfers every participant whose adjusted balance is
\* beyond epsilon is still in the one set that is not empty (all of them
\* creditors, or all of them debtors; there may be several), with the value
\* that set holds for it; together they carry the sum of the initial balances
\* minus the adjusted balances of the others, each at most epsilon in size.
C11_Residual ==
    /\ ((pc = "loop") ~> (pc = "done"))
    /\ []((pc = "done" /\ SumAll(balances) # 0)
            => /\ DOMAIN creditors = {} \/ DOMAIN debtors = {}
               /\ Beyond \subseteq Remaining
               /\ \A t \in Remaining :
                     /\ Adjusted(t) = RemainingValue(t)
                     /\ t \in DOMAIN creditors => Adjusted(t) >= Eps
                     /\ t \in DOMAIN debtors => Adjusted(t) <= -Eps
               /\ \A t \in Known \ Remaining : Abs(Adjusted(t)) <= Eps
               /\ SumOver(AdjustedAll, Beyond)
                     = SumAll(balances) - SumOver(AdjustedAll, Known \ Beyond))

\* C11 witness: a finished run on a Balance that does not sum to zero, with a
\* transfer emitted and two participants left beyond epsilon.
C11_Witness ==
    /\ pc = "done"
    /\ SumAll(balances) # 0
    /\ Len(settlements) >= 1
    /\ Cardinality(Beyond) = 2

====
